---- MODULE Spec2Model ----
(***************************************************************************)
(* A model of the streaming response aggregator and the tool-call          *)
(* orchestration loop of src/libs/ai.py (class AIChat) together with the   *)
(* dispatcher of src/libs/tools.py (TerminalTools.execute).                *)
(*                                                                         *)
(* Python values are represented as follows.                               *)
(*   - a text (content, name, arguments) is a sequence of one-character    *)
(*     strings ("" is <<>>); an id is a TLA+ string;                       *)
(*   - an optional value (dict.get without default, None) is a sequence    *)
(*     of length at most one: <<>> is None / key absent, <<v>> is v;       *)
(*   - a dict that keeps insertion order (tc_map, _filters) is a sequence  *)
(*     of entries in insertion order.                                      *)
(***************************************************************************)
EXTENDS Integers, Sequences, FiniteSets, TLC

VARIABLES
    \* ---- AIChat object state (ai.py:96-97)
    filters,      \* self._filters: ordered <<[name, fn]>>
    queues,       \* self._message_queues: queue name -> sequence of events
    \* ---- the users of the bus: callers of add_filter, _apply_filters, queue
    nadd,         \* number of add_filter calls
    npub,         \* number of _apply_filters calls made by the publisher
    expected,     \* per queue, the published events its predicate matched, in order
    cq,           \* per consumer, the queue_name it called queue() with
    cpc,          \* per consumer, where its generator is suspended
    yielded,      \* per queue, the events yielded so far and to whom, in order
    \* ---- handle_stream frame (ai.py:125-164)
    spc,          \* "reading" | "returned"
    txt,          \* local txt
    tc_map,       \* local tc_map, entries in insertion order
    last,         \* what became of the line last taken from response.aiter_lines()
    nlines,       \* number of lines taken so far
    ret,          \* <<>> until handle_stream returns, then <<[tool_calls, text]>>
    \* ---- the server side of the stream (environment)
    callIndex,    \* position of each tool call in the server's tool_calls array
    sent,         \* per tool call, the name/arguments text the server has streamed so far
    introduced,   \* per tool call, whether its id-carrying first fragment was streamed
    wellFormed,   \* whether every fragment streamed so far followed the streaming protocol
    said,         \* the content text the server has streamed so far
    \* ---- talk frame (ai.py:166-228)
    pc,           \* "idle" | "loop" | "await" | "dispatch" | "returned" | "exited" | "raised"
    use_stream,   \* local use_stream
    fn_calls,     \* whether self.fn_calls (the tool executor) is set
    has_db,       \* whether self.db_manager is set
    iteration,    \* local iteration
    messages,     \* local messages
    final_content,\* local final_content (an optional text)
    tool_calls,   \* local tool_calls of the response being dispatched
    tci,          \* position of "for tc in tool_calls"
    db,           \* the rows save_message has inserted
    answer,       \* <<>> until talk returns, then <<final_content>>
    \* ---- the history of the exchange (observers)
    requests,     \* number of client.post calls
    executed,     \* the calls of fn_calls.execute that ran a method, in order
    resp,         \* the last response: status, tool calls and content as talk got them
    failure       \* "none" | "status" | "timeout" | "executor"

streamVars == <<spc, txt, tc_map, last, nlines, ret, callIndex, sent, introduced, wellFormed,
                said>>
busVars == <<filters, queues>>
userVars == <<nadd, npub, expected, cq, cpc, yielded>>
talkVars == <<pc, use_stream, fn_calls, has_db, iteration, messages, final_content,
              tool_calls, tci, db, answer, requests, executed, resp, failure>>
vars == <<filters, queues, nadd, npub, expected, cq, cpc, yielded, spc, txt, tc_map, last, nlines, ret,
          callIndex, sent, introduced, wellFormed, said,
          pc, use_stream, fn_calls, has_db, iteration, messages, final_content,
          tool_calls, tci, db, answer, requests, executed, resp, failure>>

----------------------------------------------------------------------------
(* Bounds of the model *)

MaxEvents == 3          \* lines one streamed response may carry
MaxAddFilter == 2       \* calls of add_filter
MaxPublish == 3         \* events published to the bus
MaxCalls == 2           \* calls of execute made by a caller other than talk

----------------------------------------------------------------------------
(* Python helpers *)

None == <<>>
Some(v) == <<v>>

\* dict.get(key, default) on an optional field
Get(opt, default) == IF opt = None THEN default ELSE opt[1]

\* truthiness of an optional id (ids are kept as TLA+ strings): None and ""
\* are falsy
Truthy(optid) == optid # None /\ optid[1] # ""

\* str.strip(): drop leading and trailing whitespace
RECURSIVE LStrip(_)
LStrip(s) == IF s # <<>> /\ Head(s) = " " THEN LStrip(Tail(s)) ELSE s

RECURSIVE RStrip(_)
RStrip(s) ==
    IF s # <<>> /\ s[Len(s)] = " " THEN RStrip(SubSeq(s, 1, Len(s) - 1)) ELSE s

Strip(s) == LStrip(RStrip(s))

\* json.loads(s) succeeds.  The argument texts of the model are written over
\* the alphabet { "{", "}", " " }; the JSON documents over that alphabet are
\* exactly: whitespace, "{", whitespace, "}", whitespace.
JsonLoadsOk(s) ==
    LET t == Strip(s) IN
    /\ Len(t) >= 2
    /\ t[1] = "{"
    /\ t[Len(t)] = "}"
    /\ \A i \in 2..(Len(t) - 1) : t[i] = " "

----------------------------------------------------------------------------
(* Message filter bus: add_filter / _apply_filters (ai.py:109-117) *)

QueueNames == {"q1", "q2"}

\* The predicates a caller may register, by what they do on an event:
\*   "true"      lambda d: True
\*   "nochoices" lambda d: not d.get('choices')
\*   "choice0"   lambda d: bool(d['choices'][0])   (raises on an event without choices)
\*   "raise"     a predicate that always raises
FilterFns == {"true", "nochoices", "choice0", "raise"}

\* filter_fn(data): "match", "nomatch", or "raise" when the call raises
FilterResult(fn, data) ==
    CASE fn = "true"      -> "match"
      [] fn = "nochoices" -> IF data.choices THEN "nomatch" ELSE "match"
      [] fn = "choice0"   -> IF data.choices THEN "match" ELSE "raise"
      [] fn = "raise"     -> "raise"

\* (mutant: the first predicate that raises ends the loop)
RECURSIVE ApplyFilters_StopsAtRaise(_, _, _)
ApplyFilters_StopsAtRaise(fs, qs, data) ==
    IF fs = <<>> \/ FilterResult(Head(fs).fn, data) = "raise" THEN qs
    ELSE LET f == Head(fs)
             qs1 == IF FilterResult(f.fn, data) = "match"
                    THEN [qs EXCEPT ![f.name] = Append(@, data)]
                    ELSE qs
         IN ApplyFilters_StopsAtRaise(Tail(fs), qs1, data)

\* for queue_name, filter_fn in self._filters.items(): try/except around each
RECURSIVE ApplyFilters(_, _, _)
ApplyFilters(fs, qs, data) ==
    IF fs = <<>> THEN qs
    ELSE LET f == Head(fs)
             qs1 == IF FilterResult(f.fn, data) = "match"
                    THEN [qs EXCEPT ![f.name] = Append(@, data)]
                    ELSE qs
         IN ApplyFilters(Tail(fs), qs1, data)

\* self._filters[queue_name] = filter_fn (ai.py:110): a dict assignment, which
\* keeps the position of a name that is already registered
SetFilter(fs, name, fn) ==
    IF \E i \in DOMAIN fs : fs[i].name = name
    THEN [i \in DOMAIN fs |-> IF fs[i].name = name THEN [name |-> name, fn |-> fn] ELSE fs[i]]
    ELSE Append(fs, [name |-> name, fn |-> fn])

----------------------------------------------------------------------------
(* The bus and its users: add_filter, _apply_filters and the consumers of    *)
(* queue() (ai.py:109-123), every call made from one asyncio event loop      *)

Consumers == {"c1", "c2"}

\* The events a publisher offers: the n-th published object, with or without
\* choices
BusEvent(n, ch) == [n |-> n, choices |-> ch]

\* Whether the predicate registered for queue q returns true on event e
Matched(fs, q, e) ==
    \E i \in DOMAIN fs : fs[i].name = q /\ FilterResult(fs[i].fn, e) = "match"

UsersInit ==
    /\ nadd = 0
    /\ npub = 0
    /\ expected = [q \in QueueNames |-> <<>>]
    /\ cq \in [Consumers -> QueueNames]
    /\ cpc = [c \in Consumers |-> "idle"]
    /\ yielded = [q \in QueueNames |-> <<>>]

\* add_filter(queue_name, filter_fn) (ai.py:109-111)
AddFilter ==
    /\ nadd < MaxAddFilter
    /\ nadd' = nadd + 1
    /\ \E q \in QueueNames, fn \in FilterFns : filters' = SetFilter(filters, q, fn)
    /\ UNCHANGED <<queues, npub, expected, cq, cpc, yielded>>
    /\ UNCHANGED <<streamVars, talkVars>>

\* _apply_filters(data) (ai.py:113-117)
Publish ==
    /\ npub < MaxPublish
    /\ npub' = npub + 1
    /\ \E ch \in BOOLEAN :
          LET e == BusEvent(npub + 1, ch) IN
          /\ queues' = ApplyFilters(filters, queues, e)
          /\ expected' = [q \in QueueNames |->
                             IF Matched(filters, q, e) THEN Append(expected[q], e)
                             ELSE expected[q]]
    /\ UNCHANGED <<filters, nadd, cq, cpc, yielded>>
    /\ UNCHANGED <<streamVars, talkVars>>

\* (mutant: the newest event is taken, q.pop())
Resume_Newest(c) ==
    IF queues[cq[c]] # <<>>
    THEN LET q == queues[cq[c]] IN
         /\ queues' = [queues EXCEPT ![cq[c]] = SubSeq(q, 1, Len(q) - 1)]
         /\ yielded' = [yielded EXCEPT ![cq[c]] = Append(@, [by |-> c, event |-> q[Len(q)]])]
         /\ cpc' = [cpc EXCEPT ![c] = "idle"]
    ELSE /\ cpc' = [cpc EXCEPT ![c] = "sleeping"]
         /\ UNCHANGED <<queues, yielded>>

\* (mutant: the generator ends when it finds the queue empty)
Resume_EndsWhenEmpty(c) ==
    IF queues[cq[c]] # <<>>
    THEN /\ queues' = [queues EXCEPT ![cq[c]] = Tail(@)]
         /\ yielded' = [yielded EXCEPT ![cq[c]] = Append(@, [by |-> c, event |-> Head(queues[cq[c]])])]
         /\ cpc' = [cpc EXCEPT ![c] = "idle"]
    ELSE /\ cpc' = [cpc EXCEPT ![c] = "finished"]
         /\ UNCHANGED <<queues, yielded>>

\* (mutant: the oldest event is read but left in the queue, q[0])
Resume_Peeks(c) ==
    IF queues[cq[c]] # <<>>
    THEN /\ queues' = queues
         /\ yielded' = [yielded EXCEPT ![cq[c]] = Append(@, [by |-> c, event |-> Head(queues[cq[c]])])]
         /\ cpc' = [cpc EXCEPT ![c] = "idle"]
    ELSE /\ cpc' = [cpc EXCEPT ![c] = "sleeping"]
         /\ UNCHANGED <<queues, yielded>>

\* The generator of queue() runs from where it was resumed to its next
\* suspension (ai.py:121-123): "if q: yield q.popleft()" hands the oldest
\* event to the caller, "else: await asyncio.sleep(0.1)" suspends it.
Resume(c) ==
    IF queues[cq[c]] # <<>>
    THEN /\ queues' = [queues EXCEPT ![cq[c]] = Tail(@)]
         /\ yielded' = [yielded EXCEPT ![cq[c]] = Append(@, [by |-> c, event |-> Head(queues[cq[c]])])]
         /\ cpc' = [cpc EXCEPT ![c] = "idle"]
    ELSE /\ cpc' = [cpc EXCEPT ![c] = "sleeping"]
         /\ UNCHANGED <<queues, yielded>>

\* The caller of consumer c asks for the next event ("async for", __anext__)
Pull(c) ==
    /\ cpc[c] = "idle"
    /\ Resume(c)
    /\ UNCHANGED <<filters, nadd, npub, expected, cq>>
    /\ UNCHANGED <<streamVars, talkVars>>

\* asyncio.sleep(0.1) is over: the loop of the generator re-checks
Wake(c) ==
    /\ cpc[c] = "sleeping"
    /\ Resume(c)
    /\ UNCHANGED <<filters, nadd, npub, expected, cq>>
    /\ UNCHANGED <<streamVars, talkVars>>

----------------------------------------------------------------------------
(* Delta accumulator: the body of the loop of handle_stream (ai.py:127-152) *)

\* tc_map[tid] = {'id': tid, 'type': 'function', 'function': {'name': '', 'arguments': ''}, 'index': idx}
NewEntry(tid, idx) == [id |-> tid, index |-> idx, name |-> <<>>, arguments |-> <<>>]

Keys(m) == {m[i].id : i \in DOMAIN m}

\* matches = [i for i, t in tc_map.items() if t.get('index') == idx]
RECURSIVE Matches(_, _)
Matches(m, idx) ==
    IF m = <<>> THEN <<>>
    ELSE (IF Head(m).index = idx THEN <<Head(m).id>> ELSE <<>>) \o Matches(Tail(m), idx)

\* (mutant: a fragment without id falls back to the first pending call)
ResolveId_AnyCall(m, tc) ==
    IF Truthy(tc.id) THEN tc.id
    ELSE IF tc.id = None /\ m # <<>> THEN Some(m[1].id)
    ELSE tc.id

\* (mutant: the last pending call with the index wins)
ResolveId_LastMatch(m, tc) ==
    LET ms == Matches(m, Get(tc.index, 0)) IN
    IF Truthy(tc.id) THEN tc.id
    ELSE IF tc.id = None /\ ms # <<>> THEN Some(ms[Len(ms)])
    ELSE tc.id

\* The id a delta entry is resolved to (ai.py:143-147): its own id when it has
\* one, else the first entry of tc_map with its index, else None.
ResolveId(m, tc) ==
    LET idx == Get(tc.index, 0)
        tid == tc.id
    IN IF Truthy(tid) /\ tid[1] \notin Keys(m) THEN tid
       ELSE IF tid = None
            THEN (IF Matches(m, idx) # <<>> THEN Some(Matches(m, idx)[1]) ELSE None)
            ELSE tid

\* (mutant: the text of a fragment replaces what the call holds)
AccumulateToolCall_Overwrite(m, tc) ==
    LET tid == tc.id
        m1  == IF Truthy(tid) /\ tid[1] \notin Keys(m)
               THEN Append(m, NewEntry(tid[1], Get(tc.index, 0)))
               ELSE m
        rid == ResolveId(m, tc)
    IN IF Truthy(rid) /\ tc.function # None
       THEN [i \in DOMAIN m1 |->
                IF m1[i].id = rid[1]
                THEN [m1[i] EXCEPT !.name = tc.function[1].name,
                                   !.arguments = tc.function[1].arguments]
                ELSE m1[i]]
       ELSE m1

\* One pass of "for tc in tcd" (ai.py:142-151)
AccumulateToolCall(m, tc) ==
    LET idx == Get(tc.index, 0)
        tid == tc.id
        m1  == IF Truthy(tid) /\ tid[1] \notin Keys(m)
               THEN Append(m, NewEntry(tid[1], idx))
               ELSE m
        rid == ResolveId(m, tc)
    IN IF Truthy(rid) /\ tc.function # None
       THEN LET fd == tc.function[1] IN
            [i \in DOMAIN m1 |->
                IF m1[i].id = rid[1]
                THEN [m1[i] EXCEPT !.name = @ \o fd.name,
                                   !.arguments = @ \o fd.arguments]
                ELSE m1[i]]
       ELSE m1

RECURSIVE AccumulateToolCalls(_, _)
AccumulateToolCalls(m, tcd) ==
    IF tcd = <<>> THEN m
    ELSE AccumulateToolCalls(AccumulateToolCall(m, Head(tcd)), Tail(tcd))

\* (mutant: an event is published once it is known to have choices)
HandleLine_PublishAfterChoices(s, l) ==
    IF l.kind \in {"empty", "nodata", "badjson"} THEN s
    ELSE IF ~l.choices THEN s
    ELSE [txt    |-> s.txt \o l.content,
          tc_map |-> AccumulateToolCalls(s.tc_map, l.tool_calls),
          queues |-> ApplyFilters(filters, s.queues, l)]

\* (mutant: the content is put in front of the text)
HandleLine_Prepend(s, l) ==
    IF l.kind \in {"empty", "nodata", "badjson"} THEN s
    ELSE LET qs == ApplyFilters(filters, s.queues, l)
         IN IF ~l.choices THEN [s EXCEPT !.queues = qs]
            ELSE [txt    |-> l.content \o s.txt,
                  tc_map |-> AccumulateToolCalls(s.tc_map, l.tool_calls),
                  queues |-> qs]

\* What one line does to (txt, tc_map, queues); the done sentinel is not
\* handled here, it leaves the loop.
HandleLine(s, l) ==
    IF l.kind \in {"empty", "nodata"} THEN s                    \* ai.py:128
    ELSE IF l.kind = "badjson" THEN s                             \* ai.py:132, 152
    ELSE LET qs == ApplyFilters(filters, s.queues, l)             \* ai.py:133
         IN IF ~l.choices THEN [s EXCEPT !.queues = qs]           \* ai.py:134
            ELSE [txt    |-> s.txt \o l.content,                  \* ai.py:136-137
                  tc_map |-> AccumulateToolCalls(s.tc_map, l.tool_calls),
                  queues |-> qs]

----------------------------------------------------------------------------
(* Tool-call finalizer: the tail of handle_stream (ai.py:154-164) *)

\* sorted(tc_map.values(), key=lambda x: x.get('index', 0)): stable
RECURSIVE InsertByIndex(_, _)
InsertByIndex(sorted, t) ==
    IF sorted = <<>> THEN <<t>>
    ELSE IF Head(sorted).index <= t.index
         THEN <<Head(sorted)>> \o InsertByIndex(Tail(sorted), t)
         ELSE <<t>> \o sorted

\* (mutant: the calls are left in the order of their creation)
SortedByIndex_Unsorted(m) == m

RECURSIVE SortedByIndex(_)
SortedByIndex(m) ==
    IF m = <<>> THEN <<>>
    ELSE InsertByIndex(SortedByIndex(SubSeq(m, 1, Len(m) - 1)), m[Len(m)])

\* tc.pop('index', None)
PopIndex(t) == [id |-> t.id, name |-> t.name, arguments |-> t.arguments]

\* (mutant: the arguments are not parsed)
ValidToolCall_NoParse(t) ==
    /\ t.name # <<>>
    /\ Strip(t.arguments) # <<>>

\* the test of ai.py:159-162
ValidToolCall(t) ==
    /\ t.name # <<>>
    /\ Strip(t.arguments) # <<>>
    /\ JsonLoadsOk(t.arguments)

\* (mutant: the list of valid calls is returned even when it is empty)
Finalize_EmptyList(m, text) ==
    IF m = <<>> THEN [tool_calls |-> None, text |-> text]
    ELSE [tool_calls |-> Some(SelectSeq([i \in DOMAIN SortedByIndex(m) |->
                                            PopIndex(SortedByIndex(m)[i])], ValidToolCall)),
          text |-> text]

Finalize(m, text) ==
    IF m = <<>> THEN [tool_calls |-> None, text |-> text]
    ELSE LET sorted == SortedByIndex(m)
             popped == [i \in DOMAIN sorted |-> PopIndex(sorted[i])]
             valid_tc == SelectSeq(popped, ValidToolCall)
         IN [tool_calls |-> IF valid_tc # <<>> THEN Some(valid_tc) ELSE None,
             text |-> text]

----------------------------------------------------------------------------
(* The lines of a streamed response (the environment of handle_stream) *)

CallIds == {"a", "b"}        \* ids of the tool calls the server streams
Indexes == {0, 1}            \* their positions in the server's tool_calls array

\* The server's tool_calls array: call "a" comes first; call "b" follows it, or
\* (a server that numbers every call 0) shares its index.
CallTables == {t \in [CallIds -> Indexes] : t["a"] = 0}

NoToolCalls == <<>>

Line(kind, choices, content, tcd) ==
    [kind |-> kind, choices |-> choices, content |-> content, tool_calls |-> tcd]

EmptyLine   == Line("empty", FALSE, <<>>, NoToolCalls)      \* ""
NonDataLine == Line("nodata", FALSE, <<>>, NoToolCalls)     \* ": keep-alive", "event: x"
BadJsonLine == Line("badjson", FALSE, <<>>, NoToolCalls)    \* "data: {" (not JSON)
DoneLine    == Line("done", FALSE, <<>>, NoToolCalls)       \* "data: [DONE]"

\* "data: {...}" without choices (usage, keep-alive objects, "choices": [])
NoChoicesEvent == Line("event", FALSE, <<>>, NoToolCalls)
\* "data: {"choices":[{"delta":{"content": c}}]}"
ContentEvent(c) == Line("event", TRUE, c, NoToolCalls)
\* "data: {"choices":[{"delta":{"tool_calls":[tc]}}]}"
ToolCallEvent(tc) == Line("event", TRUE, <<>>, <<tc>>)

ContentFrags == {<<"H">>, <<"i">>}

\* The function part of a delta entry: absent, or name and/or arguments text
\* (an absent key and an empty string are both falsy at ai.py:150-151).
Fn(n, a) == Some([name |-> n, arguments |-> a])
FunctionFrags ==
    {None, Fn(<<"f">>, <<>>), Fn(<<"f">>, <<"{">>), Fn(<<"f">>, <<"{", "}">>),
     Fn(<<>>, <<"{">>), Fn(<<>>, <<"}">>), Fn(<<>>, <<" ">>)}

\* A delta entry of tool call c: its id is given or absent (or, from some
\* servers, the empty string); its index is given or absent.
Fragment(idf, ixf, fn) == [id |-> idf, index |-> ixf, function |-> fn]
IdFields(c) == {Some(c), None}
IndexFields(c) == {Some(callIndex[c]), None}
EmptyId == Some("")

\* The streaming protocol for a fragment of call c: the first fragment of a
\* call carries its id and its index (an absent index stands for 0); a later
\* fragment is tagged by the id, or by the index alone.
FragmentWellFormed(c, idf, ixf) ==
    \/ /\ idf = Some(c)
       /\ introduced[c] \/ Get(ixf, 0) = callIndex[c]
    \/ /\ idf = None
       /\ introduced[c]
       /\ Get(ixf, 0) = callIndex[c]

\* What the streaming protocol makes of a fragment arriving when the
\* pending calls are m: it opens a call ("created"), continues the call of its
\* id ("byid") or of its index ("byindex"), or belongs to no pending call
\* ("orphan": no id and no pending call at its index; "emptyid": an empty id).
HasIndex(m, idx) == \E i \in DOMAIN m : m[i].index = idx
Fate(m, tc) ==
    IF tc.id = None
    THEN (IF HasIndex(m, Get(tc.index, 0)) THEN "byindex" ELSE "orphan")
    ELSE IF tc.id = Some("") THEN "emptyid"
    ELSE IF \E i \in DOMAIN m : m[i].id = tc.id[1] THEN "byid" ELSE "created"

FnName(fn) == IF fn = None THEN <<>> ELSE fn[1].name
FnArguments(fn) == IF fn = None THEN <<>> ELSE fn[1].arguments

----------------------------------------------------------------------------
(* handle_stream, one step per line of response.aiter_lines() *)

StreamInit ==
    /\ spc = "reading"
    /\ txt = <<>>
    /\ tc_map = <<>>
    /\ last = "none"
    /\ nlines = 0
    /\ ret = None
    /\ callIndex \in CallTables
    /\ sent = [c \in CallIds |-> [name |-> <<>>, arguments |-> <<>>]]
    /\ introduced = [c \in CallIds |-> FALSE]
    /\ wellFormed = TRUE
    /\ said = <<>>

\* The loop body on line l (ai.py:127-152)
Consume(l) ==
    /\ spc = "reading"
    /\ nlines < MaxEvents
    /\ nlines' = nlines + 1
    /\ LET r == HandleLine([txt |-> txt, tc_map |-> tc_map, queues |-> queues], l)
       IN /\ txt' = r.txt
          /\ tc_map' = r.tc_map
          /\ queues' = r.queues
    /\ UNCHANGED <<spc, ret, filters, callIndex>>
    /\ UNCHANGED talkVars
    /\ UNCHANGED userVars

RecvIgnoredLine ==
    /\ \E l \in {EmptyLine, NonDataLine} : Consume(l)
    /\ last' = "ignored"
    /\ UNCHANGED <<sent, introduced, wellFormed, said>>

\* (mutant: the decoding error leaves the loop)
RecvBadJson_Aborts ==
    /\ spc = "reading"
    /\ nlines < MaxEvents
    /\ nlines' = nlines + 1
    /\ last' = "badjson"
    /\ spc' = "returned"
    /\ ret' = Some(Finalize(tc_map, txt))
    /\ UNCHANGED <<txt, tc_map, queues, filters, callIndex, sent, introduced, wellFormed, said>>
    /\ UNCHANGED talkVars
    /\ UNCHANGED userVars

RecvBadJson ==
    /\ Consume(BadJsonLine)
    /\ last' = "badjson"
    /\ UNCHANGED <<sent, introduced, wellFormed, said>>

RecvNoChoices ==
    /\ Consume(NoChoicesEvent)
    /\ last' = "nochoices"
    /\ UNCHANGED <<sent, introduced, wellFormed, said>>

RecvContent ==
    /\ \E c \in ContentFrags :
          /\ Consume(ContentEvent(c))
          /\ said' = said \o c
    /\ last' = "content"
    /\ UNCHANGED <<sent, introduced, wellFormed>>

\* The server streams one fragment of tool call c.
RecvToolCall ==
    \E c \in CallIds : \E idf \in IdFields(c), ixf \in IndexFields(c), fn \in FunctionFrags :
        /\ Consume(ToolCallEvent(Fragment(idf, ixf, fn)))
        /\ last' = Fate(tc_map, Fragment(idf, ixf, fn))
        /\ sent' = [sent EXCEPT ![c] = [name |-> @.name \o FnName(fn),
                                        arguments |-> @.arguments \o FnArguments(fn)]]
        /\ introduced' = [introduced EXCEPT ![c] = @ \/ idf = Some(c)]
        /\ wellFormed' = (wellFormed /\ FragmentWellFormed(c, idf, ixf))
        /\ UNCHANGED said

\* The server streams a whole tool call c in one fragment, with "id": "".
RecvEmptyId ==
    \E c \in CallIds : \E ixf \in IndexFields(c) :
        LET fn == Fn(<<"f">>, <<"{", "}">>) IN
        /\ Consume(ToolCallEvent(Fragment(EmptyId, ixf, fn)))
        /\ last' = Fate(tc_map, Fragment(EmptyId, ixf, fn))
        /\ sent' = [sent EXCEPT ![c] = [name |-> @.name \o FnName(fn),
                                        arguments |-> @.arguments \o FnArguments(fn)]]
        /\ wellFormed' = FALSE
        /\ UNCHANGED <<introduced, said>>

\* Leaving the loop and returning (ai.py:153-164)
Return ==
    /\ spc' = "returned"
    /\ ret' = Some(Finalize(tc_map, txt))
    /\ UNCHANGED <<txt, tc_map, last, nlines, queues, filters,
                   callIndex, sent, introduced, wellFormed, said>>
    /\ UNCHANGED talkVars
    /\ UNCHANGED userVars

\* "data: [DONE]": break (ai.py:130)
RecvDone ==
    /\ spc = "reading"
    /\ Return

\* response.aiter_lines() is exhausted
EndOfStream ==
    /\ spc = "reading"
    /\ Return

StreamNext ==
    \/ RecvIgnoredLine
    \/ RecvBadJson
    \/ RecvNoChoices
    \/ RecvContent
    \/ RecvToolCall
    \/ RecvEmptyId
    \/ RecvDone
    \/ EndOfStream

\* The filters registered before the response is streamed
StreamFilters ==
    {<<[name |-> "q1", fn |-> "raise"], [name |-> "q2", fn |-> "nochoices"]>>}

BusInit ==
    /\ queues = [q \in QueueNames |-> <<>>]

\* Nobody uses the bus on its own account
UsersIdle ==
    /\ nadd = 0
    /\ npub = 0
    /\ expected = [q \in QueueNames |-> <<>>]
    /\ cq = [c \in Consumers |-> "q1"]
    /\ cpc = [c \in Consumers |-> "idle"]
    /\ yielded = [q \in QueueNames |-> <<>>]

\* talk is not running while handle_stream is modelled on its own
TalkIdle ==
    /\ pc = "off"
    /\ use_stream = TRUE
    /\ fn_calls = FALSE
    /\ has_db = FALSE
    /\ iteration = 0
    /\ messages = <<>>
    /\ final_content = <<<<>>>>
    /\ tool_calls = <<>>
    /\ tci = 0
    /\ db = <<>>
    /\ answer = <<>>
    /\ requests = 0
    /\ executed = <<>>
    /\ resp = [status |-> 0, tool_calls |-> <<>>, content |-> <<>>]
    /\ failure = "none"

SpecStreamInit ==
    /\ StreamInit
    /\ TalkIdle
    /\ BusInit
    /\ UsersIdle
    /\ filters \in StreamFilters

SpecStream == SpecStreamInit /\ [][StreamNext]_vars

----------------------------------------------------------------------------
(* handle_stream as talk calls it: the whole response at once *)

RECURSIVE ReadLines(_, _)
ReadLines(s, lines) ==
    IF lines = <<>> \/ Head(lines).kind = "done" THEN s           \* ai.py:130
    ELSE ReadLines(HandleLine(s, Head(lines)), Tail(lines))

HandleStream(qs, lines) ==
    LET s == ReadLines([txt |-> <<>>, tc_map |-> <<>>, queues |-> qs], lines)
    IN [tool_calls |-> Finalize(s.tc_map, s.txt).tool_calls,
        text       |-> Finalize(s.tc_map, s.txt).text,
        queues     |-> s.queues]

----------------------------------------------------------------------------
(* TerminalTools.execute (tools.py:378-388) *)

\* Tool names are texts.  "f" and "g" stand for two tools of the catalog
\* (tools.py:13-206) that have a static method: "f" returns a str (read_file),
\* "g" a bool (approve).  "e" stands for execute itself, a callable attribute of
\* the class that is no tool of the catalog; "t" for tools, an attribute that
\* is not callable; every other name is no attribute of the class.
ToolF == <<"f">>
ToolG == <<"g">>
Catalog == {ToolF, ToolG}

\* getattr(TerminalTools, name, None), then "method and callable(method)"
Callable(name) == name \in Catalog \cup {<<"e">>}

StrResult  == [type |-> "str", v |-> <<"r">>]
BoolResult == [type |-> "bool", v |-> <<>>]        \* True

\* What "await method(**args)" may do, args being {} (the only arguments the
\* texts of the model parse to): return a value, or raise.
Returns(name) ==
    CASE name = ToolF -> {StrResult}
      [] name = ToolG -> {BoolResult}
      [] OTHER        -> {}

\* str(result) (ai.py:222)
Str(result) == IF result.type = "str" THEN result.v ELSE <<"T", "r", "u", "e">>

\* The args dict of a call: {} ; keyword arguments of a tool ; or
\* {"name": n, "args": a}, the keyword arguments of execute itself
NoArgs == [keys |-> "none"]
ToolArgs == [keys |-> "tool"]
CallArgs(n, a) == [keys |-> "call", name |-> n, args |-> a]

Returned_(v, ran) == [kind |-> "return", value |-> Some(v), ran |-> ran, tool_raised |-> FALSE]
Raised_(ran, in_tool) == [kind |-> "raise", value |-> None, ran |-> ran, tool_raised |-> in_tool]

\* (mutant: an exception of the method is turned into a returned text)
RECURSIVE Execute_ReturnsError(_, _)
Execute_ReturnsError(name, args) ==
    IF ~Callable(name) THEN {Raised_(<<>>, FALSE)}
    ELSE IF name \in Catalog
    THEN (IF args.keys = "call" THEN {Raised_(<<>>, FALSE)}
          ELSE {Returned_(r, <<name>>) : r \in Returns(name)}
               \cup {[kind |-> "return", value |-> Some(StrResult), ran |-> <<name>>,
                      tool_raised |-> TRUE]})
    ELSE IF args.keys = "call"
    THEN {[o EXCEPT !.kind = "return", !.value = Some(StrResult)] :
             o \in Execute_ReturnsError(args.name, args.args)}
    ELSE {Raised_(<<>>, FALSE)}

\* execute(name, args) (tools.py:378-388): the outcomes it may have, each with
\* the tools it ran.  getattr finds every attribute of the class: the static
\* methods of the catalog, and execute itself, which is called with **args
\* like any of them.
RECURSIVE Execute(_, _)
Execute(name, args) ==
    IF ~Callable(name) THEN {Raised_(<<>>, FALSE)}         \* tools.py:387-388
    ELSE IF name \in Catalog
    THEN (IF args.keys = "call"
          THEN {Raised_(<<>>, FALSE)}                       \* TypeError: unexpected keyword
          ELSE {Returned_(r, <<name>>) : r \in Returns(name)}
               \cup {Raised_(<<name>>, TRUE)})              \* tools.py:385-386
    ELSE IF args.keys = "call"
    THEN Execute(args.name, args.args)                      \* execute(name=..., args=...)
    ELSE {Raised_(<<>>, FALSE)}                             \* TypeError: missing arguments

----------------------------------------------------------------------------
(* The responses of the completion endpoint (the environment of talk) *)

TcDelta(id, index, name, arguments) ==
    Fragment(id, index, Fn(name, arguments))

\* Streamed responses.
StreamText ==
    <<EmptyLine, ContentEvent(<<"H">>), ContentEvent(<<"i">>), DoneLine>>
StreamOneCall ==
    <<ContentEvent(<<"H">>),
      ToolCallEvent(TcDelta(Some("a"), Some(0), ToolF, <<>>)),
      BadJsonLine,
      ToolCallEvent(TcDelta(None, Some(0), <<>>, <<"{", "}">>)),
      DoneLine>>
StreamTwoCalls ==
    <<ToolCallEvent(TcDelta(Some("b"), Some(1), ToolG, <<"{">>)),
      ToolCallEvent(TcDelta(Some("a"), Some(0), ToolF, <<"{">>)),
      NoChoicesEvent,
      Line("event", TRUE, <<>>, <<TcDelta(None, Some(1), <<>>, <<"}">>),
                                   TcDelta(None, None, <<>>, <<"}">>)>>),
      DoneLine>>
StreamTruncated ==
    <<ContentEvent(<<"i">>),
      ToolCallEvent(TcDelta(Some("a"), Some(0), ToolF, <<"{">>))>>
StreamUnknownTool ==
    <<ToolCallEvent(TcDelta(Some("a"), Some(0), <<"u">>, <<"{", "}">>)),
      ToolCallEvent(TcDelta(Some("b"), Some(1), ToolF, <<"{", "}">>)),
      DoneLine>>
Streams == {StreamText, StreamOneCall, StreamTwoCalls, StreamTruncated, StreamUnknownTool}

\* Non-streamed responses: data['choices'][0]['message'] = {content, tool_calls?}
ToolCall(id, name, arguments) == [id |-> id, name |-> name, arguments |-> arguments]
Body(content, tcs) ==
    [kind |-> "body", choices |-> TRUE, content |-> content, tool_calls |-> tcs]
BodyText      == Body(Some(<<"H", "i">>), None)
BodyEmptyList == Body(Some(<<"H">>), Some(<<>>))
\* content null, one call whose arguments are not JSON
BodyBadArgs   == Body(None, Some(<<ToolCall("a", ToolF, <<"{">>)>>))
BodyTwoCalls  == Body(Some(<<"i">>), Some(<<ToolCall("a", ToolF, <<"{", "}">>),
                                            ToolCall("b", ToolG, <<"{", "}">>)>>))
BodyUnknownTool ==
    Body(Some(<<>>), Some(<<ToolCall("a", ToolF, <<"{", "}">>),
                            ToolCall("b", <<"t">>, <<"{", "}">>),
                            ToolCall("c", ToolG, <<"{", "}">>)>>))
Bodies == {BodyText, BodyEmptyList, BodyBadArgs, BodyTwoCalls, BodyUnknownTool}

----------------------------------------------------------------------------
(* AIChat.talk (ai.py:166-228) *)

MaxIter == 10       \* while iteration < 10

Message(role, content, tcs, tool_call_id, name) ==
    [role |-> role, content |-> content, tool_calls |-> tcs,
     tool_call_id |-> tool_call_id, name |-> name]

\* {"role": "user", "content": content_parts}
UserMessage == Message("user", Some(<<"p">>), None, None, None)
\* {"role": "assistant", "content": assistant_content, "tool_calls": tool_calls}
AssistantMessage(content, tcs) == Message("assistant", content, Some(tcs), None, None)
\* {"role": "tool", "tool_call_id": tc['id'], "name": fn, "content": str(result)}
ToolMessage(tc, result) ==
    Message("tool", Some(Str(result)), None, Some(tc.id), Some(tc.name))

\* truthiness of an optional list: None and [] are falsy
TruthyList(optlist) == optlist # None /\ optlist[1] # <<>>

\* (mutant: off by one)
LoopCond_OffByOne == iteration <= MaxIter

\* while iteration < 10 (ai.py:184)
LoopCond == iteration < MaxIter

\* (mutant: the executor is not tested)
DispatchCond_NoExecutorTest(tcs) == TruthyList(tcs)

\* if self.fn_calls and tool_calls (ai.py:214)
DispatchCond(tcs) == fn_calls /\ TruthyList(tcs)

NoResponse == [status |-> 0, tool_calls |-> None, content |-> None]

TalkInit ==
    /\ pc = "idle"
    /\ use_stream \in BOOLEAN
    /\ fn_calls \in BOOLEAN
    /\ has_db \in BOOLEAN
    /\ iteration = 0
    /\ messages = <<>>
    /\ final_content = Some(<<>>)
    /\ tool_calls = None
    /\ tci = 0
    /\ requests = 0
    /\ executed = <<>>
    /\ db = <<>>
    /\ answer = None
    /\ resp = NoResponse
    /\ failure = "none"

\* ai.py:167-181: the message list of the exchange (the history is empty the
\* first time talk is called)
TalkStart ==
    /\ pc = "idle"
    /\ UNCHANGED streamVars
    /\ UNCHANGED userVars
    /\ messages' = <<UserMessage>>
    /\ final_content' = Some(<<>>)
    /\ iteration' = 0
    /\ pc' = "loop"
    /\ UNCHANGED <<use_stream, fn_calls, has_db, tool_calls, tci, requests, executed,
                   db, answer, resp, failure, queues, filters>>

\* ai.py:184-199: the loop test, the payload, client.post
Post ==
    /\ pc = "loop"
    /\ UNCHANGED streamVars
    /\ UNCHANGED userVars
    /\ LoopCond
    /\ iteration' = iteration + 1
    /\ requests' = requests + 1
    /\ pc' = "await"
    /\ UNCHANGED <<use_stream, fn_calls, has_db, messages, final_content, tool_calls, tci,
                   executed, db, answer, resp, failure, queues, filters>>

\* (mutant: the whole message list of the exchange is saved)
Finish_SavesExchange(content) ==
    /\ db' = IF has_db
             THEN db \o [i \in DOMAIN messages |->
                            [role |-> messages[i].role, content |-> messages[i].content]]
                     \o <<[role |-> "assistant", content |-> content]>>
             ELSE db
    /\ answer' = Some(content)
    /\ pc' = "returned"

\* ai.py:225-228: after the loop
Finish(content) ==
    /\ db' = IF has_db
             THEN db \o <<[role |-> "user", content |-> Some(<<"p">>)],
                          [role |-> "assistant", content |-> content]>>
             ELSE db
    /\ answer' = Some(content)
    /\ pc' = "returned"

\* (mutant: reaching the ceiling is reported as an error)
LoopExit_Error ==
    /\ pc = "loop"
    /\ UNCHANGED streamVars
    /\ UNCHANGED userVars
    /\ ~LoopCond
    /\ pc' = "raised"
    /\ failure' = "ceiling"
    /\ UNCHANGED <<use_stream, fn_calls, has_db, iteration, messages, final_content,
                   tool_calls, tci, requests, executed, resp, db, answer, queues, filters>>

\* the loop test fails: the ceiling
LoopExit ==
    /\ pc = "loop"
    /\ UNCHANGED streamVars
    /\ UNCHANGED userVars
    /\ ~LoopCond
    /\ Finish(final_content)
    /\ UNCHANGED <<use_stream, fn_calls, has_db, iteration, messages, final_content,
                   tool_calls, tci, requests, executed, resp, failure, queues, filters>>

\* (mutant: the request is retried)
RespNon200_Retry ==
    /\ pc = "await"
    /\ UNCHANGED streamVars
    /\ UNCHANGED userVars
    /\ resp' = [status |-> 500, tool_calls |-> None, content |-> None]
    /\ failure' = "status"
    /\ pc' = "loop"
    /\ UNCHANGED <<use_stream, fn_calls, has_db, iteration, messages, final_content,
                   tool_calls, tci, requests, executed, db, answer, queues, filters>>

\* ai.py:200-203: sys.exit(1)
RespNon200 ==
    /\ pc = "await"
    /\ UNCHANGED streamVars
    /\ UNCHANGED userVars
    /\ resp' = [status |-> 500, tool_calls |-> None, content |-> None]
    /\ failure' = "status"
    /\ pc' = "exited"
    /\ UNCHANGED <<use_stream, fn_calls, has_db, iteration, messages, final_content,
                   tool_calls, tci, requests, executed, db, answer, queues, filters>>

\* (mutant: the request is sent again after a timeout)
RespTimeout_Retry ==
    /\ pc = "await"
    /\ UNCHANGED streamVars
    /\ UNCHANGED userVars
    /\ resp' = [status |-> 0, tool_calls |-> None, content |-> None]
    /\ failure' = "timeout"
    /\ pc' = "loop"
    /\ UNCHANGED <<use_stream, fn_calls, has_db, iteration, messages, final_content,
                   tool_calls, tci, requests, executed, db, answer, queues, filters>>

\* client.post(..., timeout=60.0) raises httpx.TimeoutException (ai.py:199)
RespTimeout ==
    /\ pc = "await"
    /\ UNCHANGED streamVars
    /\ UNCHANGED userVars
    /\ resp' = [status |-> 0, tool_calls |-> None, content |-> None]
    /\ failure' = "timeout"
    /\ pc' = "raised"
    /\ UNCHANGED <<use_stream, fn_calls, has_db, iteration, messages, final_content,
                   tool_calls, tci, requests, executed, db, answer, queues, filters>>

\* (mutant: the tool calls of the last response the ceiling allows are not run)
AfterResponse_SkipsAtCeiling(tcs, content) ==
    /\ resp' = [status |-> 200, tool_calls |-> tcs, content |-> content]
    /\ final_content' = content
    /\ IF DispatchCond(tcs) /\ iteration < MaxIter
       THEN /\ messages' = Append(messages, AssistantMessage(content, tcs[1]))
            /\ tool_calls' = tcs
            /\ tci' = 1
            /\ pc' = "dispatch"
            /\ UNCHANGED <<db, answer>>
       ELSE /\ Finish(content)
            /\ UNCHANGED <<messages, tool_calls, tci>>
    /\ UNCHANGED <<use_stream, fn_calls, has_db, iteration, requests, executed, failure,
                   filters>>

\* ai.py:213-224 once tool_calls and assistant_content are known
AfterResponse(tcs, content) ==
    /\ resp' = [status |-> 200, tool_calls |-> tcs, content |-> content]
    /\ final_content' = content
    /\ IF DispatchCond(tcs)
       THEN /\ messages' = Append(messages, AssistantMessage(content, tcs[1]))
            /\ tool_calls' = tcs
            /\ tci' = 1
            /\ pc' = "dispatch"
            /\ UNCHANGED <<db, answer>>
       ELSE /\ Finish(content)                                     \* break
            /\ UNCHANGED <<messages, tool_calls, tci>>
    /\ UNCHANGED <<use_stream, fn_calls, has_db, iteration, requests, executed, failure,
                   filters>>

\* ai.py:204: a 200 response, streamed
RespStream ==
    /\ pc = "await"
    /\ UNCHANGED streamVars
    /\ UNCHANGED userVars
    /\ use_stream
    /\ \E lines \in Streams :
          LET r == HandleStream(queues, lines) IN
          /\ queues' = r.queues
          /\ AfterResponse(r.tool_calls, Some(r.text))

\* ai.py:205-211: a 200 response, not streamed
RespBody ==
    /\ pc = "await"
    /\ UNCHANGED streamVars
    /\ UNCHANGED userVars
    /\ ~use_stream
    /\ \E data \in Bodies :
          /\ queues' = ApplyFilters(filters, queues, data)
          /\ AfterResponse(data.tool_calls, data.content)

CurrentCall == tool_calls[1][tci]

\* (mutant: the batch is left after its first call)
NextCall_OnlyFirst == tci' = tci /\ pc' = "loop"

\* what the loop does once the last call of the batch has returned: continue
NextCall ==
    IF tci < Len(tool_calls[1])
    THEN /\ tci' = tci + 1 /\ pc' = "dispatch"
    ELSE /\ tci' = tci     /\ pc' = "loop"

\* (mutant: a call whose arguments do not parse is passed over)
ExecReturn_SkipsUnparsed ==
    /\ pc = "dispatch"
    /\ UNCHANGED streamVars
    /\ UNCHANGED userVars
    /\ Callable(CurrentCall.name)
    /\ IF JsonLoadsOk(CurrentCall.arguments)
       THEN \E result \in Returns(CurrentCall.name) :
               /\ executed' = Append(executed, [id |-> CurrentCall.id,
                                                name |-> CurrentCall.name,
                                                parsed |-> TRUE,
                                                result |-> Some(result)])
               /\ messages' = Append(messages, ToolMessage(CurrentCall, result))
       ELSE UNCHANGED <<executed, messages>>
    /\ NextCall
    /\ UNCHANGED <<use_stream, fn_calls, has_db, iteration, final_content, tool_calls,
                   requests, db, answer, resp, failure, queues, filters>>

\* ai.py:217-222: execute returns
ExecReturn ==
    /\ pc = "dispatch"
    /\ UNCHANGED streamVars
    /\ UNCHANGED userVars
    /\ Callable(CurrentCall.name)
    /\ \E result \in Returns(CurrentCall.name) :
          /\ executed' = Append(executed, [id |-> CurrentCall.id, name |-> CurrentCall.name,
                                           parsed |-> JsonLoadsOk(CurrentCall.arguments),
                                           result |-> Some(result)])
          /\ messages' = Append(messages, ToolMessage(CurrentCall, result))
    /\ NextCall
    /\ UNCHANGED <<use_stream, fn_calls, has_db, iteration, final_content, tool_calls,
                   requests, db, answer, resp, failure, queues, filters>>

\* (mutant: the error is caught and the loop goes on)
Raise_Swallowed ==
    /\ failure' = "executor"
    /\ messages' = messages
    /\ IF tci < Len(tool_calls[1])
       THEN /\ tci' = tci + 1 /\ pc' = "dispatch"
       ELSE /\ tci' = tci     /\ pc' = "loop"

\* what becomes of talk when execute raises ValueError: nothing catches it
Raise ==
    /\ failure' = "executor"
    /\ pc' = "raised"
    /\ UNCHANGED <<messages, tci>>

\* tools.py:385-386: the method raises
ExecRaise ==
    /\ pc = "dispatch"
    /\ UNCHANGED streamVars
    /\ UNCHANGED userVars
    /\ Callable(CurrentCall.name)
    /\ executed' = Append(executed, [id |-> CurrentCall.id, name |-> CurrentCall.name,
                                     parsed |-> JsonLoadsOk(CurrentCall.arguments),
                                     result |-> None])
    /\ Raise
    /\ UNCHANGED <<use_stream, fn_calls, has_db, iteration, final_content, tool_calls,
                   requests, db, answer, resp, queues, filters>>

\* tools.py:387-388: no such function
ExecNotFound ==
    /\ pc = "dispatch"
    /\ UNCHANGED streamVars
    /\ UNCHANGED userVars
    /\ ~Callable(CurrentCall.name)
    /\ Raise
    /\ UNCHANGED <<use_stream, fn_calls, has_db, iteration, final_content, tool_calls,
                   requests, executed, db, answer, resp, queues, filters>>

TalkNext ==
    \/ TalkStart
    \/ Post
    \/ LoopExit
    \/ RespNon200
    \/ RespTimeout
    \/ RespStream
    \/ RespBody
    \/ ExecReturn
    \/ ExecRaise
    \/ ExecNotFound

----------------------------------------------------------------------------
\* handle_stream is not running on its own account while talk is modelled
StreamIdle ==
    /\ spc = "idle"
    /\ txt = <<>>
    /\ tc_map = <<>>
    /\ last = "none"
    /\ nlines = 0
    /\ ret = None
    /\ callIndex = [c \in CallIds |-> 0]
    /\ sent = [c \in CallIds |-> [name |-> <<>>, arguments |-> <<>>]]
    /\ introduced = [c \in CallIds |-> FALSE]
    /\ wellFormed = TRUE
    /\ said = <<>>

\* The filters registered before talk is called
TalkFilters == {<<[name |-> "q1", fn |-> "true"], [name |-> "q2", fn |-> "raise"]>>}

SpecTalkInit ==
    /\ TalkInit
    /\ StreamIdle
    /\ BusInit
    /\ UsersIdle
    /\ filters \in TalkFilters

SpecTalk == SpecTalkInit /\ [][TalkNext]_vars

----------------------------------------------------------------------------
(* TerminalTools.execute on its own: a caller passes it names and args *)

\* "u" is no attribute of the class, "t" (tools) is one that is not callable
ExecNames == Catalog \cup {<<"e">>, <<"t">>, <<"u">>}
ExecArgs ==
    {NoArgs, ToolArgs, CallArgs(ToolF, ToolArgs), CallArgs(<<"u">>, NoArgs),
     CallArgs(<<"e">>, CallArgs(ToolG, NoArgs))}

\* One call of execute(name, args), from its entry to its return or raise
ExecuteCall ==
    /\ Len(executed) < MaxCalls
    /\ \E name \in ExecNames, args \in ExecArgs :
          \E o \in Execute(name, args) :
              executed' = Append(executed, [name |-> name, args |-> args, outcome |-> o])
    /\ UNCHANGED <<pc, use_stream, fn_calls, has_db, iteration, messages, final_content,
                   tool_calls, tci, db, answer, requests, resp, failure>>
    /\ UNCHANGED <<streamVars, busVars, userVars>>

SpecExecInit ==
    /\ TalkIdle
    /\ StreamIdle
    /\ BusInit
    /\ UsersIdle
    /\ filters = <<>>

SpecExec == SpecExecInit /\ [][ExecuteCall]_vars

----------------------------------------------------------------------------
(* The bus on its own: a publisher, callers of add_filter and two consumers *)

BusNext ==
    \/ AddFilter
    \/ Publish
    \/ \E c \in Consumers : Pull(c)
    \/ \E c \in Consumers : Wake(c)

\* After construction: no filter, no queue content (ai.py:96-97)
SpecBusInit ==
    /\ filters = <<>>
    /\ BusInit
    /\ UsersInit
    /\ StreamIdle
    /\ TalkIdle

SpecBus == SpecBusInit /\ [][BusNext]_vars

\* The event loop resumes a generator whose sleep is over, and the callers
\* of the consumers keep asking for the next event.
BusFairness ==
    \A c \in Consumers : WF_vars(Pull(c)) /\ WF_vars(Wake(c))

\* The consumers at work once the filters are registered: a predicate that
\* matches everything and one that raises on some events or on all
RegisteredFilters ==
    {<<[name |-> "q1", fn |-> "true"], [name |-> "q2", fn |-> "choice0"]>>,
     <<[name |-> "q1", fn |-> "raise"], [name |-> "q2", fn |-> "true"]>>}

SpecBusFairInit ==
    /\ filters \in RegisteredFilters
    /\ BusInit
    /\ nadd = Len(filters)
    /\ npub = 0
    /\ expected = [q \in QueueNames |-> <<>>]
    /\ cq \in [Consumers -> QueueNames]
    /\ cpc = [c \in Consumers |-> "idle"]
    /\ yielded = [q \in QueueNames |-> <<>>]
    /\ StreamIdle
    /\ TalkIdle

ConsumeNext ==
    \/ Publish
    \/ \E c \in Consumers : Pull(c)
    \/ \E c \in Consumers : Wake(c)

SpecBusFair == SpecBusFairInit /\ [][ConsumeNext]_vars /\ BusFairness

(* Properties of handle_stream *)

Returned == spc = "returned"
Result == ret[1]

\* The tool calls the server has started to describe
Described == {c \in CallIds : introduced[c] \/ sent[c].name # <<>> \/ sent[c].arguments # <<>>}

\* A well-formed stream: every fragment followed the protocol, the described
\* calls have distinct indexes, and each is complete (a name, and arguments
\* that are a JSON document).
WellFormedStream ==
    /\ wellFormed
    /\ \A c, d \in Described : c # d => callIndex[c] # callIndex[d]
    /\ \A c \in Described : sent[c].name # <<>> /\ JsonLoadsOk(sent[c].arguments)

\* The described calls in the order of their indexes
InIndexOrder(s) ==
    /\ {s[i] : i \in DOMAIN s} = Described
    /\ \A i, j \in DOMAIN s : i < j => callIndex[s[i]] < callIndex[s[j]]

StreamedCall(c) == [id |-> c, name |-> sent[c].name, arguments |-> sent[c].arguments]

\* C1: for a well-formed stream describing N interleaved tool calls,
\* handle_stream returns exactly N tool calls, each with the name and the
\* arguments that are the concatenation of its fragments in arrival order, in
\* the order of the calls' indexes (None when N = 0).
C1_Reconstruction ==
    (Returned /\ WellFormedStream) =>
        IF Described = {} THEN Result.tool_calls = None
        ELSE /\ Result.tool_calls # None
             /\ Len(Result.tool_calls[1]) = Cardinality(Described)
             /\ \E s \in [1..Cardinality(Described) -> Described] :
                   /\ InIndexOrder(s)
                   /\ Result.tool_calls[1] = [i \in DOMAIN s |-> StreamedCall(s[i])]

\* Two calls, the second of the server's array opened first, one of them
\* continued by a fragment tagged by its index alone, both returned.
C1_Witness ==
    /\ Returned /\ WellFormedStream
    /\ Described = CallIds
    /\ Len(tc_map) = 2 /\ tc_map[1].id = "b" /\ callIndex["b"] = 1
    /\ last = "byindex"
    /\ Len(Result.tool_calls[1]) = 2

\* Delta entries without id: every index field, with no function, with a name
\* and arguments, with arguments alone
IdlessFragments ==
    {Fragment(None, ixf, fn) :
        ixf \in {None} \cup {Some(i) : i \in Indexes},
        fn \in {None, Fn(<<"f">>, <<"{">>), Fn(<<>>, <<"}">>)}}

Here == [txt |-> txt, tc_map |-> tc_map, queues |-> queues]

\* C3: a fragment without id whose index matches no pending call is dropped:
\* consuming it leaves the fragment map and the text as they were (at every
\* point of the reading loop, for every index field and kind of payload), and
\* the fragment that follows an orphan is still accumulated: a new id opens a
\* call, a continuation reaches the call it resolves to.
C3_OrphanLeavesState ==
    \A tc \in IdlessFragments :
        (spc = "reading" /\ ~HasIndex(tc_map, Get(tc.index, 0))) =>
            /\ HandleLine(Here, ToolCallEvent(tc)).tc_map = tc_map
            /\ HandleLine(Here, ToolCallEvent(tc)).txt = txt

C3_Step ==
    /\ last' = "orphan" => (tc_map' = tc_map /\ txt' = txt)
    /\ (last = "orphan" /\ last' = "created") => Len(tc_map') = Len(tc_map) + 1
    /\ (last = "orphan" /\ last' \in {"byid", "byindex"} /\ sent' # sent) => tc_map' # tc_map

C3_OrphanDropped == []C3_OrphanLeavesState /\ [][C3_Step]_vars

\* An orphan was consumed while another call was pending with text of its own.
C3_Witness ==
    /\ last = "orphan"
    /\ Len(tc_map) = 1 /\ tc_map[1].id = "a" /\ tc_map[1].name # <<>>
    /\ sent["b"].name # <<>> /\ ~introduced["b"]

\* The first-created pending call with index idx
FirstWithIndex(m, idx) ==
    CHOOSE i \in DOMAIN m : m[i].index = idx /\ \A j \in 1..(i - 1) : m[j].index # idx

\* C4: at every point of the reading loop, a fragment without id whose index
\* (0 when absent) is that of a pending call is attached to exactly one
\* pending call, the first-created one with that index: its name and
\* arguments are appended to that call and every other call is unchanged.
C4_FirstMatchByIndex ==
    \A tc \in IdlessFragments :
        (spc = "reading" /\ HasIndex(tc_map, Get(tc.index, 0))) =>
            LET k == FirstWithIndex(tc_map, Get(tc.index, 0)) IN
            HandleLine(Here, ToolCallEvent(tc)).tc_map =
                [tc_map EXCEPT ![k] = [@ EXCEPT !.name = @ \o FnName(tc.function),
                                                !.arguments = @ \o FnArguments(tc.function)]]

\* Two pending calls share an index, and the fragment of the later one, tagged
\* by index alone, went to the one created first.
C4_Witness ==
    /\ Returned
    /\ last = "byindex"
    /\ Len(tc_map) = 2 /\ tc_map[1].id = "a" /\ tc_map[1].index = tc_map[2].index
    /\ sent["b"].arguments # <<>> /\ tc_map[2].arguments = <<>>
    /\ Result.tool_calls = Some(<<[id |-> "a", name |-> <<"f">>, arguments |-> <<"{", "}">>]>>)

WhitespaceOnly(a) == \A i \in DOMAIN a : a[i] = " "

\* C5: every returned tool call has a non-empty name and arguments that are
\* not empty, not whitespace only, and parse as JSON; a pending call is
\* returned exactly when it has these, so a call whose arguments never became
\* valid JSON is absent and the valid calls are all present.
C5_OnlyValidCalls ==
    Returned =>
        LET out == IF Result.tool_calls = None THEN <<>> ELSE Result.tool_calls[1] IN
        /\ \A i \in DOMAIN out :
              /\ out[i].name # <<>>
              /\ ~WhitespaceOnly(out[i].arguments)
              /\ JsonLoadsOk(out[i].arguments)
        /\ \A k \in DOMAIN tc_map :
              (tc_map[k].name # <<>> /\ JsonLoadsOk(tc_map[k].arguments))
                 <=> (\E i \in DOMAIN out : out[i] = PopIndex(tc_map[k]))

\* A call truncated mid-stream (name f, arguments "{") is left out and the
\* other, valid, call is returned.
C5_Witness ==
    /\ Returned
    /\ Len(tc_map) = 2
    /\ tc_map[1].name = <<"f">> /\ tc_map[1].arguments = <<"{">>
    /\ Result.tool_calls = Some(<<PopIndex(tc_map[2])>>)

\* C19: handle_stream returns None as its tool-call result, never an empty
\* list, both when no fragment was accumulated and when every accumulated call
\* was excluded as malformed; the test the conversation loop makes of the
\* result ("fn_calls and tool_calls") is then false whatever the executor, as
\* it is for a response without tool calls.
C19_NoValidCallIsNone ==
    Returned =>
        /\ Result.tool_calls # Some(<<>>)
        /\ (\A k \in DOMAIN tc_map : ~ValidToolCall(tc_map[k])) =>
               /\ Result.tool_calls = None
               /\ ~TruthyList(Result.tool_calls)

\* Fragments were accumulated, every call was excluded as malformed (one of
\* them has the name f and the arguments "{"), and None was returned.
C19_Witness ==
    /\ Returned
    /\ tc_map # <<>>
    /\ \E k \in DOMAIN tc_map : tc_map[k].name = <<"f">> /\ tc_map[k].arguments = <<"{">>
    /\ \A k \in DOMAIN tc_map : ~ValidToolCall(tc_map[k])
    /\ Result.tool_calls = None

\* C11: a line whose payload is not JSON is skipped: taking it changes
\* neither the text nor the fragment map, publishes nothing to the filter bus
\* and does not leave the loop; the line that follows it is processed as any
\* other (content is appended, an event is published, a call is opened).
C11_Step ==
    /\ (last' = "badjson" /\ nlines' = nlines + 1) =>
           /\ txt' = txt
           /\ tc_map' = tc_map
           /\ queues' = queues
           /\ spc' = "reading"
    /\ (last = "badjson" /\ nlines' = nlines + 1) =>
           /\ last' = "content" => (txt' = said' /\ Len(txt') = Len(txt) + 1)
           /\ last' = "nochoices" => queues'["q2"] = Append(queues["q2"], NoChoicesEvent)
           /\ last' = "created" => Len(tc_map') = Len(tc_map) + 1
           /\ last' = "byid" => sent' = sent \/ tc_map' # tc_map

C11_BadJsonSkipped == [][C11_Step]_vars

\* A line that is not JSON came third, after content and a tool-call fragment.
C11_Witness ==
    /\ last = "badjson"
    /\ spc = "reading"
    /\ nlines = 3
    /\ txt # <<>>
    /\ tc_map # <<>>

\* C12: the text handle_stream returns is the concatenation, in arrival order,
\* of the content of the events decoded before the done sentinel (at every
\* point of the loop txt is what was streamed so far); other lines add
\* nothing, and what follows the sentinel is not read: "H", "i", [DONE], "H"
\* gives "Hi" and no tool calls.
C12_TextIsConcatenation ==
    /\ spc = "reading" => txt = said
    /\ Returned => Result.text = said
    /\ LET r == HandleStream(queues, <<ContentEvent(<<"H">>), ContentEvent(<<"i">>),
                                       DoneLine, ContentEvent(<<"H">>)>>)
       IN r.text = <<"H", "i">> /\ r.tool_calls = None

\* "H", "i" and an event without choices were streamed, then the stream ended.
C12_Witness ==
    /\ Returned
    /\ nlines = 3
    /\ last = "nochoices"
    /\ Result.text = <<"H", "i">>
    /\ Result.tool_calls = None

\* The fragments of two calls: call a is opened by its id and continued by a
\* fragment that carries the index alone; call b comes whole.  Every fragment
\* carries an id or an index.
TwoCallFragments ==
    <<[call |-> "a", tc |-> Fragment(Some("a"), Some(0), Fn(<<"f">>, <<>>))],
      [call |-> "a", tc |-> Fragment(None, Some(0), Fn(<<>>, <<"{", "}">>))],
      [call |-> "b", tc |-> Fragment(Some("b"), Some(1), Fn(<<"f">>, <<"{", "}">>))]>>

ArrivalOrders ==
    {p \in [DOMAIN TwoCallFragments -> DOMAIN TwoCallFragments] :
        \A i, j \in DOMAIN p : i # j => p[i] # p[j]}

\* The text of the fragments of call c among fs, in the order of fs
RECURSIVE TextFor(_, _)
TextFor(c, fs) ==
    IF fs = <<>> THEN [name |-> <<>>, arguments |-> <<>>]
    ELSE LET rest == TextFor(c, Tail(fs)) IN
         IF Head(fs).call = c
         THEN [name |-> FnName(Head(fs).tc.function) \o rest.name,
               arguments |-> FnArguments(Head(fs).tc.function) \o rest.arguments]
         ELSE rest

Holds(m, c, text) ==
    \E i \in DOMAIN m :
        m[i].id = c /\ m[i].name = text.name /\ m[i].arguments = text.arguments

\* C13 as stated: whatever the order in which the fragments of several calls
\* arrive, each carrying an id or an index, the text of every fragment ends up
\* in the pending call it belongs to.
C13_AnyArrivalOrder ==
    \A p \in ArrivalOrders :
        LET fs == [i \in DOMAIN p |-> TwoCallFragments[p[i]]]
            m  == ReadLines([txt |-> <<>>, tc_map |-> <<>>, queues |-> queues],
                            [i \in DOMAIN fs |-> ToolCallEvent(fs[i].tc)]).tc_map
        IN \A c \in CallIds : Holds(m, c, TextFor(c, fs))

\* C13, amended: when every fragment carries the id of its call, or the index
\* alone of a call that an earlier fragment opened with its id (the calls
\* having distinct indexes), then at every point of the stream each call
\* described so far is pending with exactly the text of its fragments, in
\* arrival order, however the calls interleave.
C13_InterleavedAfterId ==
    (wellFormed /\ \A c, d \in Described : c # d => callIndex[c] # callIndex[d]) =>
        /\ Len(tc_map) = Cardinality(Described)
        /\ \A c \in Described : Holds(tc_map, c, sent[c])

\* Call b was opened first, then call a, and a fragment tagged by index alone
\* continued one of them.
C13_Witness ==
    /\ spc = "reading"
    /\ wellFormed
    /\ Described = CallIds
    /\ callIndex["b"] = 1
    /\ Len(tc_map) = 2 /\ tc_map[1].id = "b"
    /\ last = "byindex"
    /\ \A c \in CallIds : sent[c].name # <<>>

----------------------------------------------------------------------------
(* Properties of talk *)

Ended == pc \in {"returned", "exited", "raised"}

\* C2: one talk call issues at most 10 completion requests.
C2_AtMostTenRequests == requests <= MaxIter

\* Ten requests were issued, every response asked for tools, and talk returned.
C2_Witness ==
    /\ requests = MaxIter
    /\ pc = "returned"
    /\ Len(executed) >= MaxIter

\* C6: when the executor raises for a dispatched call, talk ends with an
\* error: it has returned no answer, and from then on no call is executed, no
\* message appended, no request issued, nothing saved and nothing returned.
C6_Raised == failure = "executor" => (pc = "raised" /\ answer = None)

C6_Step ==
    failure = "executor" =>
        /\ pc' = pc
        /\ executed' = executed
        /\ messages' = messages
        /\ requests' = requests
        /\ db' = db
        /\ answer' = answer

C6_ExecutorErrorEndsTalk == []C6_Raised /\ [][C6_Step]_vars

\* The executor raised for a call that was not the last of its batch, before
\* the ceiling.
C6_Witness ==
    /\ failure = "executor"
    /\ pc = "raised"
    /\ tci < Len(tool_calls[1])
    /\ requests < MaxIter

TenthAsksForTools ==
    /\ requests = MaxIter
    /\ resp.status = 200
    /\ TruthyList(resp.tool_calls)

\* C7 as stated: when the 10th response still carries tool calls, talk ends
\* normally and returns the text of that response.
C7_CeilingAlwaysReturns ==
    (TenthAsksForTools /\ Ended) => (pc = "returned" /\ answer = Some(resp.content))

\* C7, amended: when the 10th response still carries tool calls and the
\* executor raises for none of them, talk ends normally (the ceiling is no
\* error) and returns the text of that response; once these calls are done no
\* request follows.
C7_CeilingReturns ==
    /\ (TenthAsksForTools /\ Ended /\ failure # "executor") =>
           (pc = "returned" /\ failure = "none" /\ answer = Some(resp.content))
    /\ (TenthAsksForTools /\ pc = "loop") => ~ENABLED Post

\* The ceiling was reached with an executor: the 10th batch was executed and
\* talk returned the 10th content.
C7_Witness ==
    /\ TenthAsksForTools
    /\ fn_calls
    /\ pc = "returned"
    /\ iteration = MaxIter
    /\ answer = Some(resp.content)

\* C8: when a response carries no tool calls (None or an empty list), or no
\* executor is configured, the loop ends with that response: in the same step
\* talk returns its text, and the executor is not invoked and no request is
\* issued, then or later.
C8_Step ==
    /\ (pc = "await" /\ resp'.status = 200 /\ (~TruthyList(resp'.tool_calls) \/ ~fn_calls)) =>
           /\ pc' = "returned"
           /\ answer' = Some(resp'.content)
           /\ executed' = executed
           /\ requests' = requests
    /\ pc = "returned" =>
           /\ pc' = pc
           /\ answer' = answer
           /\ executed' = executed
           /\ requests' = requests

C8_NoToolCallsEndsLoop == [][C8_Step]_vars

\* After a round of tools, a response without tool calls ended the loop.
C8_Witness ==
    /\ pc = "returned"
    /\ fn_calls
    /\ requests = 2
    /\ resp.tool_calls = None
    /\ executed # <<>>
    /\ answer = Some(resp.content)

IsTool(i) == messages[i].role = "tool"

\* the executions that returned, in order: the n-th made the n-th tool message
ToolMessagesUpTo(p) == Cardinality({q \in 1..p : IsTool(q)})

AnswersCall(p, tc) ==
    /\ p \in DOMAIN messages
    /\ IsTool(p)
    /\ messages[p].tool_call_id = Some(tc.id)
    /\ messages[p].name = Some(tc.name)
    /\ ToolMessagesUpTo(p) \in DOMAIN executed
    /\ executed[ToolMessagesUpTo(p)].result # None
    /\ messages[p].content = Some(Str(executed[ToolMessagesUpTo(p)].result[1]))

\* C9: in the message list every request is sent with, each assistant
\* message carrying k tool calls is immediately followed by exactly k
\* role=tool messages, the i-th with the id and name of the i-th call and the
\* stringified result of its execution; no tool message stands elsewhere.
C9_ResultsFollowCalls ==
    pc = "await" =>
        /\ \A i \in DOMAIN messages :
              (messages[i].role = "assistant" /\ messages[i].tool_calls # None) =>
                  LET tcs == messages[i].tool_calls[1] IN
                  /\ \A j \in DOMAIN tcs : AnswersCall(i + j, tcs[j])
                  /\ (i + Len(tcs) + 1) \in DOMAIN messages => ~IsTool(i + Len(tcs) + 1)
        /\ \A p \in DOMAIN messages :
              IsTool(p) =>
                  \E i \in 1..(p - 1) :
                      /\ messages[i].role = "assistant"
                      /\ messages[i].tool_calls # None
                      /\ p <= i + Len(messages[i].tool_calls[1])

\* A request goes out with a batch of two calls and its two results in the list.
C9_Witness ==
    /\ pc = "await"
    /\ requests = 3
    /\ \E i \in DOMAIN messages :
          /\ messages[i].role = "assistant"
          /\ messages[i].tool_calls # None
          /\ Len(messages[i].tool_calls[1]) = 2
          /\ messages[i + 2].content = Some(Str(BoolResult))

\* C10: a response with a status other than 200 is fatal: the process exits
\* without an answer, and from then on no request is issued, no tool is
\* executed and nothing is saved or returned.
C10_Exited == failure = "status" => (pc = "exited" /\ answer = None)

C10_Step ==
    (failure = "status" \/ pc = "exited") =>
        /\ pc' = pc
        /\ requests' = requests
        /\ executed' = executed
        /\ messages' = messages
        /\ db' = db
        /\ answer' = answer

C10_Non200IsFatal == []C10_Exited /\ [][C10_Step]_vars

\* The third response of an exchange that ran tools was not a 200.
C10_Witness ==
    /\ pc = "exited"
    /\ failure = "status"
    /\ requests = 3
    /\ executed # <<>>

\* C20 as stated: a request that timed out ends the exchange in the outcome
\* of a non-success status: the failure is logged and the process exits
\* (the control state "exited" of ai.py:201-203), without an answer.
C20_TimeoutExitsAsNon200 == failure = "timeout" => (pc = "exited" /\ answer = None)

C20_Step ==
    failure = "timeout" =>
        /\ pc' = pc
        /\ requests' = requests
        /\ executed' = executed
        /\ messages' = messages
        /\ db' = db
        /\ answer' = answer

\* What holds of a timeout: the exception of client.post leaves talk, which
\* gives no answer; the request is not retried, and from then on no request
\* is issued, no tool is executed and nothing is saved or returned.
C20_TimeoutEndsTalk ==
    /\ [](failure = "timeout" => (pc = "raised" /\ answer = None))
    /\ [][C20_Step]_vars

\* The second request of an exchange that ran tools timed out.
C20_Witness ==
    /\ pc = "raised"
    /\ failure = "timeout"
    /\ requests = 2
    /\ executed # <<>>

\* C21 as stated: a dispatched call whose arguments did not parse as JSON was
\* run by the executor and answered by a tool message, always.
C21_UnparsedAlwaysAnswered ==
    \A i \in DOMAIN executed :
        ~executed[i].parsed =>
            /\ executed[i].result # None
            /\ \E p \in DOMAIN messages :
                  /\ messages[p].role = "tool"
                  /\ messages[p].tool_call_id = Some(executed[i].id)

\* C21, amended: a call whose arguments string does not parse as JSON is
\* still passed to the executor (the parse failure is caught and replaced by
\* the empty argument set).  When the executor returns, the result is appended
\* as the tool message of that call and the loop goes on with the next call or
\* the next request; when the executor raises, as it may for any call, talk
\* ends by that error and no tool message is appended.
C21_Step ==
    (pc = "dispatch" /\ ~JsonLoadsOk(CurrentCall.arguments)) =>
        \/ /\ Len(executed') = Len(executed) + 1
           /\ SubSeq(executed', 1, Len(executed)) = executed
           /\ LET x == executed'[Len(executed')] IN
                 /\ x.id = CurrentCall.id
                 /\ x.name = CurrentCall.name
                 /\ ~x.parsed
                 /\ x.result # None
                 /\ messages' = Append(messages, ToolMessage(CurrentCall, x.result[1]))
           /\ pc' \in {"dispatch", "loop"}
           /\ failure' = failure
        \/ /\ failure' = "executor"
           /\ pc' = "raised"
           /\ messages' = messages

C21_UnparsedStillDispatched == [][C21_Step]_vars

\* A call with the arguments "{" was executed with the empty argument set,
\* its result became a tool message, and the next request was issued.
C21_Witness ==
    /\ requests = 2
    /\ pc = "await"
    /\ \E i \in DOMAIN executed :
          /\ ~executed[i].parsed
          /\ executed[i].result # None
          /\ messages[Len(messages)] = ToolMessage([id |-> executed[i].id,
                                                     name |-> executed[i].name],
                                                    executed[i].result[1])

SavedUser == [role |-> "user", content |-> Some(<<"p">>)]
SavedAssistant(content) == [role |-> "assistant", content |-> content]

\* C22: the persistent history is written only when the loop has ended
\* normally, and then with exactly two messages, the user message followed by
\* the assistant message holding the final content (that of the last
\* response); an exchange ended by a non-200 status or by an error of the
\* executor has saved nothing, and neither the assistant's tool-call messages
\* nor the tool results are ever saved.
C22_SavedOnlyAtNormalEnd ==
    /\ pc # "returned" => db = <<>>
    /\ pc \in {"exited", "raised"} => db = <<>>
    /\ (pc = "returned" /\ has_db) =>
           /\ db = <<SavedUser, SavedAssistant(final_content)>>
           /\ final_content = resp.content
           /\ answer = Some(final_content)
    /\ \A i \in DOMAIN db :
           /\ db[i].role \in {"user", "assistant"}
           /\ DOMAIN db[i] = {"role", "content"}

\* With a history configured, an exchange that ran tools ended normally: its
\* message list holds tool-call and tool messages, the history only two.
C22_Witness ==
    /\ has_db
    /\ pc = "returned"
    /\ executed # <<>>
    /\ \E i \in DOMAIN messages : messages[i].role = "tool"
    /\ db = <<SavedUser, SavedAssistant(resp.content)>>

\* the messages end with the assistant message of the 10th response followed
\* by the tool messages of its first n calls
TenthBatchAnswered(n) ==
    /\ Len(messages) > n
    /\ LET i == Len(messages) - n IN
          /\ messages[i].role = "assistant"
          /\ messages[i].tool_calls = resp.tool_calls
          /\ \A j \in 1..n : AnswersCall(i + j, resp.tool_calls[1][j])

\* C23 as stated: when the 10th response carries tool calls and an executor
\* is configured, talk does not end before every one of these calls was
\* executed and its result appended to the message list, and no 11th request
\* is issued.
C23_TenthBatchAlwaysRun ==
    (TenthAsksForTools /\ fn_calls /\ Ended) =>
        /\ TenthBatchAnswered(Len(resp.tool_calls[1]))
        /\ requests = MaxIter

\* C23, amended: when the 10th response carries tool calls and an executor
\* is configured, these calls are dispatched in order and, as long as the
\* executor returns, each result is appended to the message list; when all
\* have returned no further request is issued (the loop test fails), so these
\* results are never sent, and talk returns.  When the executor raises for
\* one of them talk ends by that error, with the calls after it not run.
C23_TenthBatchRun ==
    (TenthAsksForTools /\ fn_calls /\ pc # "await") =>
        /\ pc \in {"dispatch", "loop", "returned", "raised"}
        /\ pc = "dispatch" => TenthBatchAnswered(tci - 1)
        /\ pc \in {"loop", "returned"} => TenthBatchAnswered(Len(resp.tool_calls[1]))
        /\ pc = "loop" => ~ENABLED Post
        /\ pc = "raised" =>
               /\ failure = "executor"
               /\ \E n \in 0..(Len(resp.tool_calls[1]) - 1) : TenthBatchAnswered(n)

\* The 10th response asked for two tools; both ran, their results are the
\* last two messages, and talk returned after ten requests.
C23_Witness ==
    /\ TenthAsksForTools
    /\ fn_calls
    /\ pc = "returned"
    /\ Len(resp.tool_calls[1]) = 2
    /\ TenthBatchAnswered(2)
    /\ messages[Len(messages)].role = "tool"

\* The events handle_stream decodes from the lines of a response: the data
\* lines that are JSON, up to the done sentinel
RECURSIVE Decoded(_)
Decoded(lines) ==
    IF lines = <<>> \/ Head(lines).kind = "done" THEN <<>>
    ELSE (IF Head(lines).kind = "event" THEN <<Head(lines)>> ELSE <<>>) \o Decoded(Tail(lines))

\* C17: whatever a 200 response is used for, every event decoded from it
\* (streaming), with or without choices, or its whole body (non-streaming)
\* has been offered to the filter bus by the time talk has its text and tool
\* calls: a queue whose predicate matches everything has received them all,
\* in order.
C17_Step ==
    (pc = "await" /\ resp'.status = 200) =>
        IF use_stream
        THEN \E lines \in Streams :
                /\ queues'["q1"] = queues["q1"] \o Decoded(lines)
                /\ resp'.content = Some(HandleStream(queues, lines).text)
                /\ resp'.tool_calls = HandleStream(queues, lines).tool_calls
        ELSE \E data \in Bodies :
                /\ queues'["q1"] = Append(queues["q1"], data)
                /\ resp'.content = data.content
                /\ resp'.tool_calls = data.tool_calls

C17_EveryEventOffered == [][C17_Step]_vars

\* The first response was streamed with an event without choices between
\* its tool-call fragments: the four decoded events are in the queue and the
\* two calls are being dispatched.
C17_Witness ==
    /\ use_stream
    /\ requests = 1
    /\ pc = "dispatch"
    /\ queues["q1"] = Decoded(StreamTwoCalls)
    /\ \E i \in DOMAIN queues["q1"] : queues["q1"][i] = NoChoicesEvent
    /\ Len(tool_calls[1]) = 2

----------------------------------------------------------------------------
(* Properties of execute *)

\* C18 as stated: execute signals an error and runs no tool whenever name is
\* not the name of a tool of the catalog, and signals an error whenever the
\* tool it invoked raised; in neither case does it return a result.
C18_ErrorsSignalled ==
    \A i \in DOMAIN executed :
        LET x == executed[i] IN
        /\ x.name \notin Catalog => (x.outcome.kind = "raise" /\ x.outcome.ran = <<>>)
        /\ x.outcome.tool_raised => x.outcome.kind = "raise"

\* What holds of execute: a name that is no callable attribute of the class
\* runs nothing and raises, and so does any call whose tool raised; a name of
\* the catalog runs that tool and no other.
C18_UnknownAndFailingRaise ==
    \A i \in DOMAIN executed :
        LET x == executed[i] IN
        /\ ~Callable(x.name) => (x.outcome.kind = "raise" /\ x.outcome.ran = <<>>)
        /\ x.outcome.tool_raised => x.outcome.kind = "raise"
        /\ x.name \in Catalog => x.outcome.ran \in {<<>>, <<x.name>>}

\* execute was called with the name "execute" and the arguments of a call of
\* a catalog tool: the tool ran and its result was returned.
C18_Witness ==
    \E i \in DOMAIN executed :
        /\ executed[i].name = <<"e">>
        /\ executed[i].outcome.kind = "return"
        /\ executed[i].outcome.ran = <<ToolF>>

----------------------------------------------------------------------------
(* Properties of the filter bus *)

\* C14: _apply_filters evaluates every registered predicate on the event: the
\* event is appended to the queue of each predicate that returns true and to
\* no other; a predicate that raises counts as not matching and the
\* predicates registered after it are still evaluated.
C14_Step ==
    npub' = npub + 1 =>
        \E ch \in BOOLEAN :
            LET e == BusEvent(npub + 1, ch) IN
            /\ \A i \in DOMAIN filters :
                  queues'[filters[i].name] =
                      IF FilterResult(filters[i].fn, e) = "match"
                      THEN Append(queues[filters[i].name], e)
                      ELSE queues[filters[i].name]
            /\ \A q \in QueueNames :
                  (\A i \in DOMAIN filters : filters[i].name # q) => queues'[q] = queues[q]

C14_RaisingPredicateIsolated == [][C14_Step]_vars

\* A predicate that always raises was registered first, for q1, then one that
\* always matches, for q2: the three events published since are all in q2.
C14_Witness ==
    /\ filters = <<[name |-> "q1", fn |-> "raise"], [name |-> "q2", fn |-> "true"]>>
    /\ npub = 3
    /\ Len(queues["q2"]) = 3
    /\ queues["q1"] = <<>>

Events(log) == [i \in DOMAIN log |-> log[i].event]

\* C15: for each queue name, the events yielded so far, in the order they
\* were yielded, followed by the events still in the queue, are exactly the
\* published events its predicate matched, in the order they were published.
C15_FifoPerQueue ==
    \A q \in QueueNames : Events(yielded[q]) \o queues[q] = expected[q]

\* The first and the third published event matched q1 and were yielded in
\* that order, the second did not match.
C15_Witness ==
    /\ npub = 3
    /\ Len(yielded["q1"]) = 2
    /\ yielded["q1"][1].event.n = 1
    /\ yielded["q1"][2].event.n = 3
    /\ queues["q1"] = <<>>

InQueue(q, n) == \E i \in DOMAIN queues[q] : queues[q][i].n = n
WasYielded(q, n) == \E i \in DOMAIN yielded[q] : yielded[q][i].event.n = n

\* C16: a consumer never finishes on its own (its generator is always
\* suspended at a yield or in a sleep), and, the event loop waking sleepers
\* and the callers pulling, every event that enters a queue some consumer
\* reads is eventually yielded.
C16_ConsumerNeverEnds ==
    /\ [](\A c \in Consumers : cpc[c] \in {"idle", "sleeping"})
    /\ \A q \in QueueNames : \A n \in 1..MaxPublish :
          ((\E c \in Consumers : cq[c] = q) /\ InQueue(q, n)) ~> WasYielded(q, n)

\* A consumer that has yielded an event found its queue empty and sleeps,
\* and an event was enqueued since.
C16_Witness ==
    \E c \in Consumers :
        /\ cpc[c] = "sleeping"
        /\ queues[cq[c]] # <<>>
        /\ \E i \in DOMAIN yielded[cq[c]] : yielded[cq[c]][i].by = c

\* the number of times the n-th published event was yielded from queue q, and
\* the number of its copies waiting in q
TimesYielded(q, n) == Cardinality({i \in DOMAIN yielded[q] : yielded[q][i].event.n = n})
TimesQueued(q, n) == Cardinality({i \in DOMAIN queues[q] : queues[q][i].n = n})
Enqueued(q, n) == \E i \in DOMAIN expected[q] : expected[q][i].n = n

\* C24: whatever the interleaving of publish steps and of the consumers, two
\* of which may iterate the same queue name, every event enqueued for a queue
\* is in exactly one place: still waiting in the queue, or yielded exactly
\* once, to one consumer of that queue; no event is yielded twice, none is
\* lost, and nothing is yielded that was not enqueued.
C24_YieldedExactlyOnce ==
    \A q \in QueueNames :
        /\ \A n \in 1..MaxPublish :
              TimesYielded(q, n) + TimesQueued(q, n) = IF Enqueued(q, n) THEN 1 ELSE 0
        /\ \A i \in DOMAIN yielded[q] :
              /\ yielded[q][i].by \in Consumers
              /\ cq[yielded[q][i].by] = q
              /\ yielded[q][i].event \in {expected[q][k] : k \in DOMAIN expected[q]}

\* Both consumers iterate q1; three events were enqueued for it, each
\* consumer was yielded at least one of them and none is left in the queue.
C24_Witness ==
    /\ cq["c1"] = "q1"
    /\ cq["c2"] = "q1"
    /\ Len(expected["q1"]) = 3
    /\ queues["q1"] = <<>>
    /\ Len(yielded["q1"]) = 3
    /\ \E i \in DOMAIN yielded["q1"] : yielded["q1"][i].by = "c1"
    /\ \E i \in DOMAIN yielded["q1"] : yielded["q1"][i].by = "c2"

====
